---- MODULE Spec2Model ----
(***************************************************************************)
(* Credential and token lifecycle of sparks-api: the user collection with  *)
(* its schema defaults, projections and unique indexes, the user and auth  *)
(* services, the auth controller and the authGuard middleware.             *)
(*                                                                         *)
(* Time is counted in hours.  Plaintext passwords are small naturals, a   *)
(* bcrypt hash of p is HashBase + p.  Null stands for both null and a     *)
(* missing field (MongoDB queries and indexes treat them alike);          *)
(* Undefined is a path that a query projection did not load.              *)
(***************************************************************************)
EXTENDS Integers, Sequences, FiniteSets, TLC

\* ---------------------------------------------------------------- bounds
MaxUsers == 2
MaxTime == 1
MaxTokens == 2
MaxCalls == 2
MaxJwts == 1

\* ------------------------------------------------------ program constants
ResetTokenTTL == 1
JwtTTL == 24
HashBase == 100

Null == -1
Undefined == -2

Usernames == {"alice", "bob"}
Emails == {"alice@example.com", "bob@example.com"}

\* A session token: the payload {_id, iat, exp} and whether its signature
\* verifies under JWT_SECRET.  The other kinds are what a client can send
\* in place of one: nothing, the empty string, a string that is no JWT.
NoJwt == [kind |-> "none", sub |-> 0, iat |-> 0, exp |-> 0, sig |-> "none"]
EmptyJwt == [kind |-> "empty", sub |-> 0, iat |-> 0, exp |-> 0, sig |-> "none"]
Garbage == [kind |-> "garbage", sub |-> 0, iat |-> 0, exp |-> 0, sig |-> "none"]

\* Plaintext passwords offered by callers: 1 and 2 satisfy the policy,
\* 3 is too short.
PlainAttr ==
  << [len |-> 11, upper |-> TRUE, lower |-> TRUE, digit |-> TRUE, space |-> FALSE],
     [len |-> 9,  upper |-> TRUE, lower |-> TRUE, digit |-> TRUE, space |-> FALSE],
     [len |-> 5,  upper |-> FALSE, lower |-> TRUE, digit |-> TRUE, space |-> FALSE] >>
Plains == DOMAIN PlainAttr
ValidPlains == {1, 2}

\* A request: the Authorization header (absent, "Bearer <t>" or "<t>") and
\* the jwt cookie.
Request(scheme, headerTok, cookieTok) ==
  [scheme |-> scheme, authorization |-> headerTok, jwtCookie |-> cookieTok]

\* The environment variables the program reads.
EnvVars == {"MONGO_URI", "PORT", "JWT_SECRET"}

VARIABLES store, now, nextTok, calls, issued, guard, last, proc

vars == <<store, now, nextTok, calls, issued, guard, last, proc>>

\* The server is past its startup checks and serves requests.
Running == proc.state = "running"

\* process.env['JWT_SECRET'] is set.
SecretDefined == "JWT_SECRET" \in proc.env

\* ------------------------------------------------------------ the schema
SchemaDefaults ==
  [ username |-> "", email |-> "", password |-> Null,
    emailVerified |-> FALSE,
    emailVerificationToken |-> Null,
    emailVerificationTokenExpiresAt |-> Null,
    passwordResetToken |-> Null,
    passwordResetTokenExpiresAt |-> Null,
    deletedAt |-> Null ]

\* Paths declared select: false, left out of a query result unless asked for.
SelectFalse ==
  { "email", "password", "emailVerificationToken",
    "emailVerificationTokenExpiresAt", "passwordResetToken",
    "passwordResetTokenExpiresAt", "deletedAt" }

Merge(doc, body) ==
  [k \in DOMAIN doc |-> IF k \in DOMAIN body THEN body[k] ELSE doc[k]]

\* A projection that loads every path, select:false or not.
ProjectEverything(doc, plus) == doc

\* The document as a query returns it; plus are the paths of .select('+path').
Project(doc, plus) ==
  [k \in DOMAIN doc |->
     IF k \in SelectFalse \ plus
       THEN (IF k = "email" THEN "" ELSE Undefined)
       ELSE doc[k]]

Ids(s) == DOMAIN s
Live(s) == {i \in Ids(s) : s[i].deletedAt = Null}

\* The collection without the two partial indexes on the token fields.
UniqueViolationNoTokenIndexes(s) ==
  \E i, j \in Ids(s) :
    /\ i # j
    /\ \/ s[i].username = s[j].username
       \/ s[i].email = s[j].email

\* userSchema.index(..., {unique, partialFilterExpression: deletedAt null})
\* and the unique:true of username and email (an index over every document).
UniqueViolation(s) ==
  \E i, j \in Ids(s) :
    /\ i # j
    /\ \/ s[i].username = s[j].username
       \/ s[i].email = s[j].email
       \/ /\ i \in Live(s)
          /\ j \in Live(s)
          /\ \/ s[i].email = s[j].email
             \/ s[i].username = s[j].username
             \/ s[i].emailVerificationToken = s[j].emailVerificationToken
             \/ s[i].passwordResetToken = s[j].passwordResetToken

\* ------------------------------------------------------------- passwords
isPasswordValid(p) ==
  LET a == PlainAttr[p] IN
    /\ a.len >= 8
    /\ a.len <= 100
    /\ a.upper
    /\ a.lower
    /\ a.digit
    /\ ~a.space

bcryptHash(p) == HashBase + p

\* A hook that hashes the password path on every save.
hashPasswordAlways(doc, modified) ==
  [doc EXCEPT !.password = bcryptHash(doc.password)]

\* The pre-save hook: hashes only a modified password path.
hashPassword(doc, modified) ==
  IF "password" \in modified
    THEN [doc EXCEPT !.password = bcryptHash(doc.password)]
    ELSE doc

\* bcrypt.compare rejects when the hash is missing, else tells whether the
\* hash was derived from the data.
comparePassword(doc, password) ==
  IF doc.password \in {Undefined, Null} THEN "Error"
  ELSE IF doc.password = bcryptHash(password) THEN "match"
  ELSE "mismatch"

\* ----------------------------------------------------------------- errors
\* The taxonomy: OperationError and its nine subclasses, with the status
\* each constructor hands to super (DatabaseError hands none and takes the
\* default of the base class) and the default message.
\* The statuses as the @status tags of the doc comments give them.
httpStatusAsDocumented ==
  [ OperationError |-> 500,
    AuthenticationError |-> 401,
    AuthorizationError |-> 404,
    DatabaseError |-> 500,
    ValidationError |-> 400,
    SemanticError |-> 400,
    NotFoundError |-> 404,
    ConflictError |-> 409,
    InternalError |-> 500,
    HttpMethodNotAllowedError |-> 405 ]

httpStatus ==
  [ OperationError |-> 500,
    AuthenticationError |-> 401,
    AuthorizationError |-> 403,
    DatabaseError |-> 500,
    ValidationError |-> 400,
    SemanticError |-> 400,
    NotFoundError |-> 404,
    ConflictError |-> 409,
    InternalError |-> 500,
    HttpMethodNotAllowedError |-> 405 ]

defaultMessage ==
  [ OperationError |-> "Operation error",
    AuthenticationError |-> "Not authenticated",
    AuthorizationError |-> "Not authorized",
    DatabaseError |-> "Database error",
    ValidationError |-> "Validation error",
    SemanticError |-> "Semantic error",
    NotFoundError |-> "Resource not found",
    ConflictError |-> "Conflict error",
    InternalError |-> "Internal error",
    HttpMethodNotAllowedError |-> "Method not allowed" ]

Taxonomy == DOMAIN httpStatus

\* An error without a details property, or with a falsy one.
NoDetails == ""

\* new <class>(message): an error of the taxonomy.
OperationError(class, message) ==
  [class |-> class, message |-> message, httpStatus |-> httpStatus[class],
   details |-> NoDetails]

\* An error of a class outside the taxonomy; details is whatever property
\* of that name the thrower put on it.
ForeignError(class, message, details) ==
  [class |-> class, message |-> message, httpStatus |-> Undefined,
   details |-> details]

\* What the libraries underneath throw.
DuplicateKey == ForeignError("MongoServerError", "E11000 duplicate key error", NoDetails)
ValidatorError == ForeignError("dbError.ValidationError", "User validation failed", NoDetails)
BcryptError == ForeignError("Error", "data and hash arguments required", NoDetails)
\* jwt.sign without a secret.
JwtSignError == ForeignError("Error", "secretOrPrivateKey must have a value", NoDetails)

Thrown(name) ==
  IF name = "MongoServerError" THEN DuplicateKey
  ELSE IF name = "dbError.ValidationError" THEN ValidatorError
  ELSE BcryptError

errorToRestStatus(error) ==
  IF error.class \in Taxonomy THEN error.httpStatus
  ELSE IF error.class \in {"TypeError", "dbError.ValidationError", "URIError"} THEN 400
  ELSE 500

formatErrorResponse(responseMessage, details) ==
  IF details # NoDetails
    THEN [message |-> responseMessage, details |-> details]
    ELSE [message |-> responseMessage]

\* The response errorHandler writes for an error handed to next().
errorResponse(err) ==
  LET status == errorToRestStatus(err)
      message == IF status # 500 THEN err.message ELSE "Internal server error" IN
    [status |-> status, body |-> formatErrorResponse(message, err.details)]

\* res.status(n).end(): a response without a body.
NoBody == [empty |-> TRUE]

\* ------------------------------------------------------ service: accounts
\* new UserModel(body).save(): validation, pre-save hook, insert.
SaveNew(body) ==
  LET doc == Merge(SchemaDefaults, body) IN
    IF ~isPasswordValid(doc.password) THEN [ok |-> FALSE, error |-> "dbError.ValidationError", store |-> store]
    ELSE LET s == Append(store, hashPassword(doc, {"password"})) IN
      IF UniqueViolation(s) THEN [ok |-> FALSE, error |-> "MongoServerError", store |-> store]
      ELSE [ok |-> TRUE, error |-> "none", store |-> s]

\* findByIdAndUpdate(id, body): $set of the body on the document with that
\* _id, no validators and no save hook; null when no document has the id.
FindByIdAndUpdate(id, body) ==
  IF id \notin Ids(store) THEN [ok |-> TRUE, error |-> "none", found |-> FALSE, store |-> store]
  ELSE LET s == [store EXCEPT ![id] = Merge(store[id], body)] IN
    IF UniqueViolation(s) THEN [ok |-> FALSE, error |-> "MongoServerError", found |-> TRUE, store |-> store]
    ELSE [ok |-> TRUE, error |-> "none", found |-> TRUE, store |-> s]

NoCall ==
  [pc |-> "idle", tok |-> Null, cur |-> 1, new |-> 1, id |-> 0,
   pw |-> Undefined, expired |-> FALSE, overlap |-> FALSE, stale |-> FALSE,
   result |-> "none"]

\* The collection is empty and nothing has been served.
InitData ==
  /\ store = << >>
  /\ now = 0
  /\ nextTok = 1
  /\ calls = [c \in 1..MaxCalls |-> NoCall]
  /\ issued = {}
  /\ guard = [handled |-> FALSE, req |-> Request("absent", NoJwt, NoJwt), at |-> 0, live |-> FALSE,
              status |-> 0, message |-> "", nextCalled |-> FALSE, user |-> Undefined]
  /\ last = [op |-> "none"]

\* A process that was started with every variable of the environment set.
Init ==
  /\ InitData
  /\ proc = [state |-> "running", env |-> EnvVars]

\* A process about to start, in whatever environment it is given.
InitStart ==
  /\ InitData
  /\ proc \in [state : {"init"}, env : SUBSET EnvVars]

checkMissingEnvironmentVars(requiredEnvVars) ==
  requiredEnvVars \ proc.env

\* app.ts up to startServer: exits when a required variable is missing.
app ==
  /\ proc.state = "init"
  /\ proc' = [proc EXCEPT !.state =
                IF checkMissingEnvironmentVars({"MONGO_URI", "PORT"}) # {}
                  THEN "exited" ELSE "running"]
  /\ UNCHANGED <<store, now, nextTok, calls, issued, guard, last>>

\* The email of the body is that of an account that is not soft-deleted.
EmailTaken(body) ==
  \E i \in Live(store) : store[i].email = body.email

\* The username or the email of the body was that of an account, every
\* account is soft-deleted by now and the body is otherwise acceptable.
FreedBySoftDelete(body) ==
  /\ Live(store) = {}
  /\ \E i \in Ids(store) :
       store[i].username = body.username \/ store[i].email = body.email
  /\ isPasswordValid(body.password)

\* No account has the username or the email of the body, there are
\* accounts that are not soft-deleted, each of them has both token paths
\* at the default null, and the body is otherwise acceptable.
FreshAmongDefaults(body) ==
  /\ \A i \in Ids(store) :
       store[i].username # body.username /\ store[i].email # body.email
  /\ Live(store) # {}
  /\ \A i \in Live(store) :
       store[i].passwordResetToken = Null /\ store[i].emailVerificationToken = Null
  /\ isPasswordValid(body.password)

\* UserController.createUser -> UserService.createUser; a failure goes to
\* errorHandler as it was thrown.
createUser(body) ==
  /\ Running
  /\ Len(store) < MaxUsers
  /\ LET r == SaveNew(body) IN
       /\ store' = r.store
       /\ last' = [op |-> "createUser", body |-> body, error |-> r.error,
                   status |-> IF r.ok THEN 200
                              ELSE errorResponse(Thrown(r.error)).status,
                   taken |-> EmailTaken(body),
                   freed |-> FreedBySoftDelete(body),
                   fresh |-> FreshAmongDefaults(body)]
  /\ UNCHANGED <<proc, now, nextTok, calls, issued, guard>>

\* AuthController.signUp -> AuthService.signUp: UserModel.create, any
\* failure rethrown as SemanticError with the message of the original.
signUp(body) ==
  /\ Running
  /\ Len(store) < MaxUsers
  /\ LET r == SaveNew(body)
         err == OperationError("SemanticError", Thrown(r.error).message) IN
       /\ store' = r.store
       /\ last' = [op |-> "signUp", body |-> body,
                   error |-> IF r.ok THEN "none" ELSE err.class,
                   status |-> IF r.ok THEN 200 ELSE errorResponse(err).status,
                   taken |-> EmailTaken(body),
                   freed |-> FreedBySoftDelete(body),
                   fresh |-> FreshAmongDefaults(body)]
  /\ UNCHANGED <<proc, now, nextTok, calls, issued, guard>>

\* UserController.updateUser -> UserService.updateUser: the request body
\* goes to findByIdAndUpdate as is.
updateUser(id, body) ==
  /\ Running
  /\ LET r == FindByIdAndUpdate(id, body) IN
       /\ store' = r.store
       /\ last' = [op |-> "updateUser", id |-> id, body |-> body, error |-> r.error,
                   status |-> IF r.ok THEN 200
                              ELSE errorResponse(Thrown(r.error)).status]
  /\ UNCHANGED <<proc, now, nextTok, calls, issued, guard>>

\* UserService.deleteUser: stamps deletedAt, the document stays.
deleteUser(id) ==
  /\ Running
  /\ LET r == FindByIdAndUpdate(id, [deletedAt |-> now]) IN
       /\ store' = r.store
       /\ last' = [op |-> "deleteUser", error |-> r.error]
  /\ UNCHANGED <<proc, now, nextTok, calls, issued, guard>>

\* ------------------------------------------------------- ephemeral tokens
\* save() of a loaded document with changed paths: the changed paths are
\* validated, the pre-save hook runs, the paths are written back and the
\* unique indexes are checked.
SaveChanges(id, changes) ==
  IF "password" \in DOMAIN changes /\ ~isPasswordValid(changes.password)
    THEN [ok |-> FALSE, error |-> "dbError.ValidationError", store |-> store]
  ELSE LET s == [store EXCEPT ![id] =
                   hashPassword(Merge(store[id], changes), DOMAIN changes)] IN
    IF UniqueViolation(s) THEN [ok |-> FALSE, error |-> "MongoServerError", store |-> store]
    ELSE [ok |-> TRUE, error |-> "none", store |-> s]

\* An issuance that keeps a token the account already holds.
generatePasswordResetTokenKeepFirst(id) ==
  /\ Running
  /\ id \in Ids(store)
  /\ nextTok <= MaxTokens
  /\ LET r == IF store[id].passwordResetToken # Null
                THEN [ok |-> TRUE, error |-> "none", store |-> store]
                ELSE SaveChanges(id, [passwordResetToken |-> nextTok,
                                      passwordResetTokenExpiresAt |-> now + ResetTokenTTL]) IN
       /\ store' = r.store
       /\ last' = [op |-> "generatePasswordResetToken", id |-> id, error |-> r.error]
  /\ nextTok' = nextTok + 1
  /\ UNCHANGED <<proc, now, calls, issued, guard>>

\* user.generatePasswordResetToken() followed by user.save(); the token is
\* 20 fresh random bytes.
generatePasswordResetToken(id) ==
  /\ Running
  /\ id \in Ids(store)
  /\ nextTok <= MaxTokens
  /\ LET r == SaveChanges(id, [passwordResetToken |-> nextTok,
                               passwordResetTokenExpiresAt |-> now + ResetTokenTTL]) IN
       /\ store' = r.store
       /\ last' = [op |-> "generatePasswordResetToken", id |-> id, error |-> r.error]
  /\ nextTok' = nextTok + 1
  /\ UNCHANGED <<proc, now, calls, issued, guard>>

\* An issuance that takes the account's reset token away as it stores the
\* verification token.
generateEmailVerificationTokenOneSlot(id) ==
  /\ Running
  /\ id \in Ids(store)
  /\ nextTok <= MaxTokens
  /\ LET r == SaveChanges(id, [emailVerificationToken |-> nextTok,
                               emailVerificationTokenExpiresAt |-> now + ResetTokenTTL,
                               passwordResetToken |-> Null,
                               passwordResetTokenExpiresAt |-> Null]) IN
       /\ store' = r.store
       /\ last' = [op |-> "generateEmailVerificationToken", id |-> id, error |-> r.error]
  /\ nextTok' = nextTok + 1
  /\ UNCHANGED <<proc, now, calls, issued, guard>>

\* user.generateEmailVerificationToken() followed by user.save().
generateEmailVerificationToken(id) ==
  /\ Running
  /\ id \in Ids(store)
  /\ nextTok <= MaxTokens
  /\ LET r == SaveChanges(id, [emailVerificationToken |-> nextTok,
                               emailVerificationTokenExpiresAt |-> now + ResetTokenTTL]) IN
       /\ store' = r.store
       /\ last' = [op |-> "generateEmailVerificationToken", id |-> id, error |-> r.error]
  /\ nextTok' = nextTok + 1
  /\ UNCHANGED <<proc, now, calls, issued, guard>>

\* AuthService.resetPassword up to its first await: the lookup by token.
\* stale notes that some account holds a token issued after the one
\* presented.
\* findOne takes any document whose passwordResetToken equals the value
\* presented, soft-deleted or not, and loads it without the select:false
\* paths.
resetPasswordFind(c, cur, new, tok) ==
  /\ Running
  /\ calls[c].pc = "idle"
  /\ LET matches == {i \in Ids(store) : store[i].passwordResetToken = tok}
         stale == tok # Null /\ \E i \in Ids(store) : store[i].passwordResetToken > tok IN
       IF matches = {}
         THEN calls' = [calls EXCEPT ![c] =
                [NoCall EXCEPT !.pc = "done", !.tok = tok, !.cur = cur, !.new = new,
                               !.stale = stale,
                               !.result = "Invalid password reset token"]]
         ELSE \E i \in matches :
                calls' = [calls EXCEPT ![c] =
                  [NoCall EXCEPT !.pc = "loaded", !.tok = tok, !.cur = cur,
                     !.new = new, !.id = i, !.stale = stale,
                     !.pw = Project(store[i], {}).password,
                     !.expired = (store[i].passwordResetTokenExpiresAt # Null
                                  /\ store[i].passwordResetTokenExpiresAt < now),
                     !.overlap = (\E d \in DOMAIN calls :
                                    d # c /\ calls[d].pc = "loaded" /\ calls[d].tok = tok)]]
  /\ UNCHANGED <<proc, store, now, nextTok, issued, guard, last>>

\* The rest of AuthService.resetPassword: comparePassword on the loaded
\* document and, when it resolves to true, the new password, the cleared
\* token (passwordResetTokenExpiresAt is left as it is) and save().
resetPasswordSave(c) ==
  /\ Running
  /\ calls[c].pc = "loaded"
  /\ LET call == calls[c]
         cmp == comparePassword([password |-> call.pw], call.cur)
         r == SaveChanges(call.id,
                [password |-> call.new, passwordResetToken |-> Null])
         result == IF cmp = "Error" THEN "Error"
                   ELSE IF cmp = "mismatch" THEN "Invalid password"
                   ELSE IF ~r.ok THEN r.error
                   ELSE "ok" IN
       /\ store' = IF result = "ok" THEN r.store ELSE store
       /\ calls' = [calls EXCEPT ![c].pc = "done", ![c].result = result]
  /\ UNCHANGED <<proc, now, nextTok, issued, guard, last>>

\* ---------------------------------------------------------- session tokens
\* jwt.sign({_id}, JWT_SECRET, {expiresIn})
generateJWT(id, expiresIn) ==
  [kind |-> "jwt", sub |-> id, iat |-> now, exp |-> now + expiresIn, sig |-> "valid"]

\* What a client without the secret can make of a token it holds.
Tamper(t) == [t EXCEPT !.sig = "forged"]

\* A verification that looks at the expiry before the signature.
jwtVerifyExpiryFirst(t) ==
  IF t.kind # "jwt" THEN "JsonWebTokenError"
  ELSE IF now >= t.exp THEN "TokenExpiredError"
  ELSE IF t.sig # "valid" THEN "JsonWebTokenError"
  ELSE "ok"

\* jwt.verify: structure, then the secret (without one every token is
\* refused), then signature, then expiry.
jwtVerify(t) ==
  IF t.kind # "jwt" THEN "JsonWebTokenError"
  ELSE IF ~SecretDefined THEN "JsonWebTokenError"
  ELSE IF t.sig # "valid" THEN "JsonWebTokenError"
  ELSE IF now >= t.exp THEN "TokenExpiredError"
  ELSE "ok"

\* UserService.findUser: by _id among the documents that are not soft-deleted.
findUser(id) ==
  IF id \in Live(store) THEN id ELSE Null

\* The session tokens clients hold, the first MaxJwts that were issued.
Remember(t) ==
  IF Cardinality(issued) < MaxJwts THEN issued \cup {t} ELSE issued

\* A catch block that hands every error to errorHandler.
signInCatchForward(err) == errorResponse(err)

\* The catch block of AuthController.signIn.
signInCatch(err) ==
  IF err.class = "AuthenticationError"
    THEN [status |-> 401, body |-> NoBody]
    ELSE errorResponse(err)

\* AuthController.signIn with AuthService.signIn and generateJwtToken.
signIn(email, password) ==
  /\ Running
  /\ LET matches == {i \in Ids(store) : store[i].email = email}
         holder == {i \in matches : store[i].password = bcryptHash(password)}
         seen == [op |-> "signIn", email |-> email, password |-> password,
                  deleted |-> (\E i \in holder : store[i].deletedAt # Null)]
         failed(err) == seen @@ signInCatch(err) @@
                          [error |-> IF err.class = "AuthenticationError"
                                       THEN err.message ELSE err.class,
                           jwt |-> NoJwt] IN
       IF matches = {}
         THEN /\ last' = failed(OperationError("AuthenticationError", "User not found"))
              /\ UNCHANGED issued
         ELSE \E i \in matches :
           LET cmp == comparePassword(Project(store[i], {"password"}), password)
               t == generateJWT(i, JwtTTL) IN
             IF cmp = "match" /\ ~SecretDefined
               THEN /\ last' = failed(JwtSignError)
                    /\ UNCHANGED issued
             ELSE IF cmp = "match"
               THEN /\ last' = seen @@
                       [status |-> 200, body |-> [message |-> "Successfully signed in"],
                        error |-> "none", jwt |-> t]
                    /\ issued' = Remember(t)
               ELSE /\ last' = failed(IF cmp = "mismatch"
                                        THEN OperationError("AuthenticationError",
                                                            "Invalid password")
                                        ELSE BcryptError)
                    /\ UNCHANGED issued
  /\ UNCHANGED <<proc, store, now, nextTok, calls, guard>>

\* AuthController.signOut: tells the client to clear its cookie; the server
\* keeps no session state to change.
signOut ==
  /\ Running
  /\ last' = [op |-> "signOut", at |-> now, status |-> 200]
  /\ UNCHANGED <<proc, store, now, nextTok, calls, issued, guard>>

\* The one credential a request carries, in whichever transport.
Credential(req) ==
  IF req.scheme = "absent" THEN req.jwtCookie ELSE req.authorization

\* req.headers.authorization?.replace('Bearer ', '')
ExtractToken(req) ==
  IF req.scheme = "absent" THEN NoJwt ELSE req.authorization

\* A catch block that tests JsonWebTokenError, the base class of
\* TokenExpiredError, first.
catchMessageBaseFirst(err) == "Unauthorized"

\* The catch block of authGuard: the message the 401 carries.
catchMessage(err) ==
  IF err = "TokenExpiredError" THEN "Token expired" ELSE "Unauthorized"

\* A gate that keeps sessions on the server: once a sign-out was served it
\* turns every token down.
authGuardRevoking(req) ==
  /\ Running
  /\ LET token == ExtractToken(req)
         seen == [handled |-> TRUE, req |-> req, at |-> now,
                  live |-> (Credential(req).sub \in Live(store))]
         v == jwtVerify(token) IN
       guard' =
         IF token.kind \in {"none", "empty"} \/ last.op = "signOut"
           THEN seen @@ [status |-> 401, message |-> "Unauthorized",
                         nextCalled |-> FALSE, user |-> Undefined]
         ELSE IF v = "ok"
           THEN seen @@ [status |-> 0, message |-> "",
                         nextCalled |-> TRUE, user |-> findUser(token.sub)]
         ELSE seen @@ [status |-> 401, message |-> catchMessage(v),
                       nextCalled |-> FALSE, user |-> Undefined]
  /\ UNCHANGED <<proc, store, now, nextTok, calls, issued, last>>

\* The authGuard middleware.
authGuard(req) ==
  /\ Running
  /\ LET token == ExtractToken(req)
         seen == [handled |-> TRUE, req |-> req, at |-> now,
                  live |-> (Credential(req).sub \in Live(store))]
         v == jwtVerify(token) IN
       guard' =
         IF token.kind \in {"none", "empty"}
           THEN seen @@ [status |-> 401, message |-> "Unauthorized",
                         nextCalled |-> FALSE, user |-> Undefined]
         ELSE IF v = "ok"
           THEN seen @@ [status |-> 0, message |-> "",
                         nextCalled |-> TRUE, user |-> findUser(token.sub)]
         ELSE seen @@ [status |-> 401, message |-> catchMessage(v),
                       nextCalled |-> FALSE, user |-> Undefined]
  /\ UNCHANGED <<proc, store, now, nextTok, calls, issued, last>>

\* UserModel.verifyJWT, as AuthService.validateJwtToken calls it: jwt.verify,
\* then the account of the payload among the documents whose deletedAt is
\* null; the two jsonwebtoken errors are rethrown as ValidationError, any
\* other error as it is.
verifyJWT(token) ==
  /\ Running
  /\ LET v == jwtVerify(token)
         user == IF v = "ok" /\ token.sub \in Live(store) THEN token.sub ELSE Null
         err == IF v = "TokenExpiredError"
                  THEN OperationError("ValidationError", "Token expired!")
                ELSE IF v = "JsonWebTokenError"
                  THEN OperationError("ValidationError", "Invalid token!")
                ELSE OperationError("NotFoundError", "User not found!")
         ok == v = "ok" /\ user # Null IN
       last' = [op |-> "verifyJWT", token |-> token, at |-> now,
                error |-> IF ok THEN "none" ELSE err.class,
                message |-> IF ok THEN "" ELSE err.message,
                status |-> IF ok THEN 200 ELSE errorToRestStatus(err),
                user |-> IF ok THEN user ELSE Undefined]
  /\ UNCHANGED <<proc, store, now, nextTok, calls, issued, guard>>

\* The errorHandler middleware, for an error some handler passed to next().
errorHandler(err) ==
  /\ Running
  /\ last' = [op |-> "errorHandler", err |-> err] @@ errorResponse(err)
  /\ UNCHANGED <<proc, store, now, nextTok, calls, issued, guard>>

\* ------------------------------------------------------------------ clock
Tick ==
  /\ now < MaxTime
  /\ now' = now + 1
  /\ UNCHANGED <<proc, store, nextTok, calls, issued, guard, last>>

TickDay ==
  /\ now <= MaxTime
  /\ now' = now + JwtTTL
  /\ UNCHANGED <<proc, store, nextTok, calls, issued, guard, last>>

\* ----------------------------------------------------------------- inputs
Alice == [username |-> "alice", email |-> "alice@example.com", password |-> 1]
Bob == [username |-> "bob", email |-> "bob@example.com", password |-> 1]

\* A body whose password is too short for the policy.
Weak == [username |-> "alice", email |-> "alice@example.com", password |-> 3]

NewUserBodies == {Alice, Bob}
SignUpBodies == NewUserBodies \cup {Weak}

UpdateBodies ==
  { [password |-> 2], [password |-> 3], [passwordResetToken |-> 1],
    [emailVerified |-> TRUE] }

\* The credentials a client can present: tokens it was given in the jwt
\* cookie, what it can make of them, and strings that are no token.
Offered ==
  issued \cup {Tamper(t) : t \in issued} \cup {EmptyJwt, Garbage}

Requests ==
  { Request("absent", NoJwt, NoJwt) }
    \cup { Request("Bearer", t, NoJwt) : t \in Offered }
    \cup { Request("raw", t, NoJwt) : t \in issued }
    \cup { Request("absent", NoJwt, t) : t \in issued }

\* Errors that reach errorHandler: each class of the taxonomy with its
\* default message and with a message of the thrower, and errors of other
\* classes with and without a details property.
TaxonomyErrors ==
  UNION { { OperationError(c, defaultMessage[c]),
            OperationError(c, "User 42 not found") } : c \in Taxonomy }

ForeignErrors ==
  { ForeignError(c, m, dt) :
      c \in {"Error", "TypeError", "URIError", "dbError.ValidationError", "MongoServerError"},
      m \in {"connect ECONNREFUSED 10.0.0.7:27017", "Cannot read properties of undefined"},
      dt \in {NoDetails, "at UserService.createUser (user.service.ts:21)"} }

Errors == TaxonomyErrors \cup ForeignErrors

\* The account operations and the ephemeral tokens, one resetPassword call.
Next ==
  \/ \E b \in SignUpBodies : createUser(b)
  \/ \E b \in SignUpBodies : signUp(b)
  \/ \E i \in 1..MaxUsers, b \in UpdateBodies : updateUser(i, b)
  \/ \E i \in 1..MaxUsers : deleteUser(i)
  \/ \E i \in 1..MaxUsers : generatePasswordResetToken(i)
  \/ \E i \in 1..MaxUsers : generateEmailVerificationToken(i)
  \/ \E tok \in 1..MaxTokens : resetPasswordFind(1, 1, 2, tok)
  \/ resetPasswordSave(1)

Spec == Init /\ [][Next]_vars

\* Reset tokens issued, ageing and presented by concurrent resetPassword calls.
NextReset ==
  \/ createUser(Alice)
  \/ \E i \in 1..MaxUsers : generatePasswordResetToken(i)
  \/ \E c \in 1..MaxCalls, cur \in ValidPlains, tok \in 1..MaxTokens :
       resetPasswordFind(c, cur, 2, tok)
  \/ \E c \in 1..MaxCalls : resetPasswordSave(c)
  \/ Tick
  \/ TickDay

SpecReset == Init /\ [][NextReset]_vars

\* Sign-in, sign-out and the auth gate over accounts that come and go.
NextAuth ==
  \/ \E b \in NewUserBodies : createUser(b)
  \/ \E i \in 1..MaxUsers : deleteUser(i)
  \/ \E e \in Emails, p \in ValidPlains : signIn(e, p)
  \/ signOut
  \/ \E r \in Requests : authGuard(r)
  \/ Tick
  \/ TickDay

SpecAuth == Init /\ [][NextAuth]_vars

\* Bodies of updateUser that aim at the unique indexes: a token another
\* account may hold, an email another account may hold, and the removal of
\* the soft-delete stamp.
IndexedBodies ==
  { [passwordResetToken |-> 1], [email |-> "alice@example.com"], [deletedAt |-> Null] }

\* Accounts created, updated, soft-deleted and given tokens.
NextUnique ==
  \/ \E b \in NewUserBodies : createUser(b)
  \/ \E b \in NewUserBodies : signUp(b)
  \/ \E i \in 1..MaxUsers, b \in IndexedBodies : updateUser(i, b)
  \/ \E i \in 1..MaxUsers : deleteUser(i)
  \/ \E i \in 1..MaxUsers : generatePasswordResetToken(i)
  \/ \E i \in 1..MaxUsers : generateEmailVerificationToken(i)

SpecUnique == Init /\ [][NextUnique]_vars

\* Session tokens issued by sign-in and verified by verifyJWT while the
\* account comes and goes and the clock runs.
NextVerify ==
  \/ createUser(Alice)
  \/ \E i \in 1..MaxUsers : deleteUser(i)
  \/ \E e \in Emails, p \in ValidPlains : signIn(e, p)
  \/ \E t \in Offered : verifyJWT(t)
  \/ Tick
  \/ TickDay

SpecVerify == Init /\ [][NextVerify]_vars

\* Failed creations and whatever else is thrown, on their way through
\* errorHandler.
NextErrors ==
  \/ \E b \in SignUpBodies : createUser(b)
  \/ \E b \in SignUpBodies : signUp(b)
  \/ \E i \in 1..MaxUsers : deleteUser(i)
  \/ \E e \in Errors : errorHandler(e)

SpecErrors == Init /\ [][NextErrors]_vars

\* What a resetPassword request can carry as its token: a token that was
\* or will be issued, or null (an absent field reaches the query the same).
PresentedTokens == 1..MaxTokens \cup {Null}

\* Both kinds of token issued for the accounts, and one resetPassword call.
NextTokens ==
  \/ \E b \in NewUserBodies : createUser(b)
  \/ \E i \in 1..MaxUsers : generatePasswordResetToken(i)
  \/ \E i \in 1..MaxUsers : generateEmailVerificationToken(i)
  \/ \E tok \in PresentedTokens : resetPasswordFind(1, 1, 2, tok)
  \/ resetPasswordSave(1)

SpecTokens == Init /\ [][NextTokens]_vars

\* The process from its start on, in any environment, and the first
\* sign-ins and gated requests it serves.
NextStart ==
  \/ app
  \/ createUser(Alice)
  \/ \E e \in Emails, p \in ValidPlains : signIn(e, p)
  \/ \E r \in Requests : authGuard(r)

SpecStart == InitStart /\ [][NextStart]_vars

\* ------------------------------------------------------------- properties
Done(c) == calls[c].pc = "done"

\* No resetPassword call gets past comparePassword: the document it loaded
\* has no password path.
resetPasswordNeverSucceeds ==
  \A c \in DOMAIN calls : calls[c].result # "ok"

\* C2: a resetPassword call that presents a stored token whose
\* passwordResetTokenExpiresAt lies before the current time ends with the
\* expired-token error and leaves the account as it was.
C2_ExpiredTokenRejected ==
  [][\A c \in DOMAIN calls :
       (calls[c].pc = "loaded" /\ calls[c].expired /\ calls'[c].pc = "done")
         => (calls'[c].result = "Token expired" /\ store' = store)]_vars

C4_TokenHasExpiry ==
  \A i \in Ids(store) :
    /\ (store[i].passwordResetToken # Null)
         <=> (store[i].passwordResetTokenExpiresAt # Null)
    /\ (store[i].emailVerificationToken # Null)
         <=> (store[i].emailVerificationTokenExpiresAt # Null)

\* C5: the stored password of every account is a bcrypt hash and never a
\* plaintext a caller supplied.
C5_PasswordStoredHashed ==
  \A i \in Ids(store) :
    /\ \E p \in Plains : store[i].password = bcryptHash(p)
    /\ store[i].password \notin Plains

\* C6: signing in with the email and the correct password of a soft-deleted
\* account is answered 401 and sets no session token.
C6_DeletedCannotSignIn ==
  (last.op = "signIn" /\ last.deleted)
    => (last.status = 401 /\ last.jwt = NoJwt)

ValidSignature(t) == t.kind = "jwt" /\ t.sig = "valid"

\* C7: a correctly signed, unexpired token whose account is missing or
\* soft-deleted is answered 401 and the downstream handler is not invoked.
C7_LookupMissRejected ==
  (/\ guard.handled
   /\ guard.req.scheme # "absent"
   /\ ValidSignature(guard.req.authorization)
   /\ guard.at < guard.req.authorization.exp
   /\ ~guard.live)
    => (guard.status = 401 /\ ~guard.nextCalled)

\* C8: an expired, correctly signed bearer token is answered 401 with the
\* token-expired message, no account is attached and the downstream handler
\* is not invoked.
C8_ExpiredTokenRejected ==
  (/\ guard.handled
   /\ guard.req.scheme # "absent"
   /\ ValidSignature(guard.req.authorization)
   /\ guard.at > guard.req.authorization.exp)
    => (/\ guard.status = 401
        /\ guard.message = "Token expired"
        /\ guard.user = Undefined
        /\ ~guard.nextCalled)

C8_Witness ==
  /\ guard.handled
  /\ guard.req.scheme = "Bearer"
  /\ ValidSignature(guard.req.authorization)
  /\ guard.at > guard.req.authorization.exp
  /\ guard.status = 401

\* C9: a request with no token, or with a token that is malformed or whose
\* signature does not verify, is answered 401 with the unauthorized message
\* and the downstream handler is not invoked.
C9_NoOrBadTokenRejected ==
  (/\ guard.handled
   /\ \/ guard.req.scheme = "absent" /\ guard.req.jwtCookie = NoJwt
      \/ guard.req.scheme # "absent"
           /\ \/ guard.req.authorization.kind \in {"empty", "garbage"}
              \/ guard.req.authorization.sig = "forged")
    => (/\ guard.status = 401
        /\ guard.message = "Unauthorized"
        /\ ~guard.nextCalled)

C9_Witness ==
  /\ guard.handled
  /\ guard.req.scheme = "Bearer"
  /\ guard.req.authorization.sig = "forged"
  /\ guard.at >= guard.req.authorization.exp
  /\ guard.status = 401

\* C10: a valid session token of a live account passes the gate whether it
\* comes in the jwt cookie or in the Authorization header.
C10_EitherTransportAccepted ==
  (/\ guard.handled
   /\ ValidSignature(Credential(guard.req))
   /\ guard.at < Credential(guard.req).exp
   /\ guard.live)
    => (guard.nextCalled /\ guard.user = Credential(guard.req).sub)

\* C11: a resetPassword call that presents an issued, unexpired token, the
\* account's current password and a policy-valid new password succeeds;
\* from then on signing in with the old password fails, signing in with the
\* new one succeeds, and no account holds the token any more.
C11_ResetEndToEnd ==
  [][\A c \in DOMAIN calls :
       (/\ calls[c].pc = "loaded"
        /\ calls'[c].pc = "done"
        /\ ~calls[c].expired
        /\ ~calls[c].overlap
        /\ comparePassword(store[calls[c].id], calls[c].cur) = "match"
        /\ calls[c].new # calls[c].cur
        /\ isPasswordValid(calls[c].new))
         => (/\ calls'[c].result = "ok"
             /\ comparePassword(Project(store'[calls[c].id], {"password"}),
                                calls[c].cur) = "mismatch"
             /\ comparePassword(Project(store'[calls[c].id], {"password"}),
                                calls[c].new) = "match"
             /\ \A i \in Ids(store') :
                  store'[i].passwordResetToken # calls[c].tok)]_vars

\* The last operation was handed a plaintext for the password of an account.
SetsPassword ==
  /\ \/ last.op \in {"createUser", "signUp"}
     \/ last.op = "updateUser" /\ last.id \in Ids(store)
  /\ "password" \in DOMAIN last.body

\* C12: createUser, signUp, updateUser and resetPassword turn down a
\* plaintext that violates the password policy and store nothing of it; a
\* plaintext that satisfies the policy is not turned down for its form.
C12_PolicyEnforced ==
  /\ (SetsPassword /\ ~isPasswordValid(last.body.password))
       => (/\ last.error # "none"
           /\ \A i \in Ids(store) :
                store[i].password \notin
                  {last.body.password, bcryptHash(last.body.password)})
  /\ (SetsPassword /\ isPasswordValid(last.body.password))
       => last.error # "dbError.ValidationError"
  /\ \A c \in DOMAIN calls :
       (Done(c) /\ ~isPasswordValid(calls[c].new)) => calls[c].result # "ok"

\* C13: a creation whose email is that of an account that is not
\* soft-deleted fails with ConflictError, status 409, on the createUser and
\* on the signUp path, and one account keeps the email.
C13_DuplicateEmailConflict ==
  (last.op \in {"createUser", "signUp"} /\ last.taken)
    => (/\ last.error = "ConflictError"
        /\ last.status = 409
        /\ Cardinality({i \in Live(store) : store[i].email = last.body.email}) = 1)

\* C14: no two accounts that are not soft-deleted share a username, an
\* email, a non-null passwordResetToken or a non-null emailVerificationToken.
C14_LiveAccountsUnique ==
  \A i, j \in Live(store) :
    i # j =>
      /\ store[i].username # store[j].username
      /\ store[i].email # store[j].email
      /\ store[i].passwordResetToken # Null
           => store[i].passwordResetToken # store[j].passwordResetToken
      /\ store[i].emailVerificationToken # Null
           => store[i].emailVerificationToken # store[j].emailVerificationToken

\* Two accounts are live and an update that would have given the second
\* the reset token of the first was refused.
C14_Witness ==
  /\ Cardinality(Live(store)) = 2
  /\ last.op = "updateUser"
  /\ last.id \in Live(store)
  /\ "passwordResetToken" \in DOMAIN last.body
  /\ \E j \in Live(store) :
       j # last.id /\ store[j].passwordResetToken = last.body.passwordResetToken
  /\ last.error = "MongoServerError"

\* C15: once every account that held a username or an email is
\* soft-deleted, creating an account with that username or email succeeds.
C15_SoftDeletedFreesNames ==
  (last.op \in {"createUser", "signUp"} /\ last.freed)
    => (last.error = "none" /\ last.status = 200)

\* C16: an error of the taxonomy that reaches errorHandler is answered with
\* its own httpStatus and its own message.
C16_TaxonomyErrorVerbatim ==
  (last.op = "errorHandler" /\ last.err.class \in Taxonomy)
    => (/\ last.status = last.err.httpStatus
        /\ last.body.message = last.err.message)

\* C17: an error outside the taxonomy that is mapped to 500 is answered
\* with the one generic body, whatever its message and its details, so two
\* such errors are answered alike.
C17_GenericBodyFor500 ==
  (/\ last.op = "errorHandler"
   /\ last.err.class \notin Taxonomy
   /\ last.status = 500)
    => last.body = [message |-> "Internal server error"]

\* C18: a sign-in with an email no account has and a sign-in with a known
\* email and a wrong password are both answered 401 without a body and
\* without a session token, so the caller cannot tell them apart.
C18_SignInFailuresAlike ==
  (last.op = "signIn" /\ last.error \in {"User not found", "Invalid password"})
    => (/\ last.status = 401
        /\ last.body = NoBody
        /\ last.jwt = NoJwt)

\* A sign-in with the email of an account and a password that is not its.
C18_Witness ==
  /\ last.op = "signIn"
  /\ \E i \in Ids(store) :
       /\ store[i].email = last.email
       /\ store[i].password # bcryptHash(last.password)
  /\ last.error = "Invalid password"
  /\ last.status = 401

\* C19: verifyJWT accepts a token that generateJWT issued for an account
\* and returns that account at every time before the token's expiry, one
\* day after it was issued, and fails with the token-expired error at every
\* time after it.
C19_AcceptedUntilExpiry ==
  (/\ last.op = "verifyJWT"
   /\ ValidSignature(last.token)
   /\ last.token.exp = last.token.iat + JwtTTL)
    => (/\ last.at < last.token.exp
          => (last.error = "none" /\ last.user = last.token.sub)
        /\ last.at > last.token.exp
          => (last.error # "none" /\ last.message = "Token expired!"))

\* C20: when verifyJWT turns a token down because it is expired, malformed
\* or wrongly signed, the error is an AuthenticationError, status 401.
C20_VerifyFailureIs401 ==
  (/\ last.op = "verifyJWT"
   /\ \/ ~ValidSignature(last.token)
      \/ last.at >= last.token.exp)
    => (last.error = "AuthenticationError" /\ last.status = 401)

\* C21: what verifyJWT answers is settled by the token and the time alone:
\* it accepts, with the account of the payload, exactly the correctly signed
\* tokens that have not expired, whatever the store holds.
C21_VerifyIgnoresStore ==
  last.op = "verifyJWT"
    => /\ (last.error = "none")
            <=> (ValidSignature(last.token) /\ last.at < last.token.exp)
       /\ last.error = "none" => last.user = last.token.sub

\* C22: issuing a reset token for an account replaces the one it held: the
\* account stores the new token with an expiry one hour after this
\* issuance, and a resetPassword call that presents a token issued before
\* the one now stored ends with the invalid-token error.
C22_SecondTokenOverwrites ==
  [][/\ (nextTok' = nextTok + 1 /\ last'.op = "generatePasswordResetToken")
          => (/\ store'[last'.id].passwordResetToken = nextTok
              /\ store'[last'.id].passwordResetTokenExpiresAt = now + ResetTokenTTL)
     /\ \A c \in DOMAIN calls :
          (calls[c].pc = "idle" /\ calls'[c].pc # "idle" /\ calls'[c].stale)
            => (/\ calls'[c].pc = "done"
                /\ calls'[c].result = "Invalid password reset token"
                /\ store' = store)]_vars

\* The account was given a second reset token, and a call that presented
\* the first one after that was turned down.
C22_Witness ==
  \E c \in DOMAIN calls, i \in Ids(store) :
    /\ Done(c)
    /\ calls[c].stale
    /\ calls[c].tok = 1
    /\ store[i].passwordResetToken = 2
    /\ store[i].passwordResetTokenExpiresAt > ResetTokenTTL
    /\ calls[c].result = "Invalid password reset token"

\* C23: the process does not get past its startup without JWT_SECRET, so
\* no sign-in reaches jwt.sign and no gated request reaches jwt.verify
\* while the secret is undefined.
C23_NoStartWithoutSecret ==
  /\ Running => SecretDefined
  /\ (last.op = "signIn" /\ last.status \in {200, 500}) => SecretDefined
  /\ (guard.handled /\ ExtractToken(guard.req).kind \notin {"none", "empty"})
       => SecretDefined

\* C24: no account has emailVerified true, whatever bodies createUser,
\* signUp, updateUser, deleteUser and resetPassword were given.
C24_EmailVerifiedStaysFalse ==
  \A i \in Ids(store) : store[i].emailVerified = FALSE

\* C25: a session token issued before a sign-out and presented to
\* authGuard after it, before its expiry and while its account is not
\* soft-deleted, passes the gate with its account attached.
C25_SignOutRevokesNothing ==
  (/\ last.op = "signOut"
   /\ guard.handled
   /\ guard.at > last.at
   /\ guard.req.scheme # "absent"
   /\ ValidSignature(guard.req.authorization)
   /\ guard.at < guard.req.authorization.exp
   /\ guard.live)
    => (guard.nextCalled /\ guard.user = guard.req.authorization.sub)

\* A token was issued, a sign-out was served, time passed and the token
\* went through the gate.
C25_Witness ==
  /\ last.op = "signOut"
  /\ guard.handled
  /\ guard.at > last.at
  /\ guard.req.scheme = "Bearer"
  /\ guard.req.authorization \in issued
  /\ guard.req.authorization.iat <= last.at
  /\ guard.live
  /\ guard.nextCalled

C27_ResaveKeepsHash ==
  [][(nextTok' = nextTok + 1)
       => \A i \in Ids(store) : store'[i].password = store[i].password]_vars

\* An account was saved twice after its creation and still holds the hash
\* of the password it was created with.
C27_Witness ==
  \E i \in Ids(store) :
    /\ store[i].passwordResetToken # Null
    /\ store[i].emailVerificationToken # Null
    /\ store[i].password = bcryptHash(Alice.password)

\* C28: generatePasswordResetToken and resetPassword leave the email
\* verification token and its expiry of every account as they were, and
\* generateEmailVerificationToken leaves the reset token and its expiry as
\* they were.
C28_TokenKindsIndependent ==
  [][\A i \in Ids(store) :
       /\ (\/ nextTok' = nextTok + 1 /\ last'.op = "generatePasswordResetToken"
           \/ calls' # calls)
            => (/\ store'[i].emailVerificationToken = store[i].emailVerificationToken
                /\ store'[i].emailVerificationTokenExpiresAt
                     = store[i].emailVerificationTokenExpiresAt)
       /\ (nextTok' = nextTok + 1 /\ last'.op = "generateEmailVerificationToken")
            => (/\ store'[i].passwordResetToken = store[i].passwordResetToken
                /\ store'[i].passwordResetTokenExpiresAt
                     = store[i].passwordResetTokenExpiresAt)]_vars

\* An account holds a token of each kind, the verification token issued
\* after the reset token, and a resetPassword call that found the account
\* has finished.
C28_Witness ==
  \E i \in Ids(store), c \in DOMAIN calls :
    /\ store[i].passwordResetToken # Null
    /\ store[i].emailVerificationToken # Null
    /\ store[i].emailVerificationToken > store[i].passwordResetToken
    /\ Done(c)
    /\ calls[c].id = i
    /\ calls[c].tok = store[i].passwordResetToken

\* C29: a resetPassword call that presents null (or no token field at all)
\* selects no account and ends with the invalid-token error.
C29_NullTokenSelectsNothing ==
  \A c \in DOMAIN calls :
    (calls[c].pc # "idle" /\ calls[c].tok = Null)
      => (/\ Done(c)
          /\ calls[c].id = 0
          /\ calls[c].result = "Invalid password reset token")

\* C30: creating an account with a username and an email no account has
\* succeeds when the accounts that are not soft-deleted all have both token
\* paths at the default null, however many they are.
C30_NullTokensCoexist ==
  (last.op \in {"createUser", "signUp"} /\ last.fresh)
    => (last.error = "none" /\ last.status = 200)
====
